---------------------------- MODULE Spec2Model ----------------------------
(***************************************************************************)
(* Model of src/test.py: the harness that starts a Kubo daemon, tails its  *)
(* stderr in a background thread (drain_stderr), parses "sent provider     *)
(* record" log lines in a second thread (monitor_logs) and polls the       *)
(* progress counters from the main thread until every root multihash has   *)
(* been advertised.                                                        *)
(*                                                                         *)
(* Multihashes are modelled as byte strings of length <= 1 (sequences of   *)
(* numbers 0..255); a base64 text is modelled by its sequence of 6-bit     *)
(* data characters and its number of '=' padding characters.               *)
(* Time is the number of seconds since `start`; it saturates at MaxElapsed *)
(* (every comparison the code makes is against 120, below the cap).        *)
(***************************************************************************)
EXTENDS Integers, Sequences, FiniteSets, TLC

VARIABLES
    \* membership index (test.py 107-126), fixed after construction
    root_mhs, other_mhs,
    \* tracking state (test.py 139-148)
    root_advertised, other_advertised, emptydir_advertised,
    unknown_advertised, total_provide_records, seen_provide_prefixes,
    \* the daemon process and its two pipes (test.py 156-162)
    daemon, stdout, daemon_signal,
    \* shared stderr buffer (test.py 173)
    stderr_lines,
    \* monitor_logs locals and position (test.py 201-266)
    monpc, seen_idx, new_lines, keys, key_idx, prefix, n_new_root,
    \* main locals and position (test.py 184-198, 276-352)
    mainpc, n_root_done, last_progress, stall_reported, clock, err,
    missing_mhs, missing_by_prefix, prefixes_copy, report, outcome,
    \* history: seconds since main last saw the root count grow, and the
    \* number of stall diagnostics printed since then
    since_progress, diag_count,
    \* history: the sum of n_new_root over the records counted so far
    new_root_sum,
    \* history: the lines monitor_logs has taken up, in the order taken
    processed,
    \* history: the reads and writes of tracking state made outside
    \* `with lock:`, as pairs <<thread, field>>
    unlocked_access

vars == <<root_mhs, other_mhs, root_advertised, other_advertised,
          emptydir_advertised, unknown_advertised, total_provide_records,
          seen_provide_prefixes, daemon, stdout, daemon_signal,
          stderr_lines, monpc, seen_idx, new_lines, keys, key_idx, prefix,
          mainpc, n_root_done, last_progress, stall_reported, clock, err,
          missing_mhs, missing_by_prefix, prefixes_copy, report, outcome,
          since_progress, diag_count, n_new_root, new_root_sum,
          processed, unlocked_access>>

index_vars    == <<root_mhs, other_mhs>>
progress_vars == <<root_advertised, other_advertised, emptydir_advertised,
                   unknown_advertised, total_provide_records,
                   seen_provide_prefixes>>
daemon_vars   == <<daemon, stdout, daemon_signal>>
monitor_vars  == <<monpc, seen_idx, new_lines, keys, key_idx, prefix,
                   n_new_root, new_root_sum, processed>>
main_locals   == <<n_root_done, last_progress, stall_reported, clock, err,
                   missing_mhs, missing_by_prefix, prefixes_copy, report,
                   outcome,
                   since_progress, diag_count>>

---------------------------------------------------------------------------
\* Bounds of the model.

\* number of lines the daemon writes to stderr during a run
MaxLines == 2

\* the clock saturates here (must exceed StallThreshold)
MaxElapsed == 140

\* Program constants.
StallThreshold == 120
PollInterval == 10

Min(a, b) == IF a < b THEN a ELSE b

---------------------------------------------------------------------------
\* Identifiers and base64.

\* stand-in for the multihash of the empty directory created by ipfs init
EMPTY_DIR_MH == <<0>>

MH_A == <<1>>
MH_B == <<2>>
MH_C == <<3>>

\* the base64 text of a byte string of length <= 1, as the daemon logs it
B64Encode(mh) ==
    IF Len(mh) = 0
    THEN [data |-> <<>>, pad |-> 0]
    ELSE [data |-> <<mh[1] \div 4, (mh[1] % 4) * 16>>, pad |-> 2]

\* base64.b64decode on a text of at most three data characters; err stands
\* for the binascii.Error it raises (one data character, or missing padding)
B64Error == [err |-> TRUE, bytes |-> <<>>]
B64Ok(bs) == [err |-> FALSE, bytes |-> bs]

b64decode(key_b64) ==
    LET d == key_b64.data
        n == Len(d)
    IN  IF n % 4 = 0 THEN B64Ok(<<>>)
        ELSE IF n % 4 = 1 THEN B64Error
        ELSE IF n % 4 = 2
             THEN IF key_b64.pad >= 2
                  THEN B64Ok(<<d[1] * 4 + (d[2] \div 16)>>)
                  ELSE B64Error
             ELSE IF key_b64.pad >= 1
                  THEN B64Ok(<<d[1] * 4 + (d[2] \div 16),
                               (d[2] % 16) * 16 + (d[3] \div 4)>>)
                  ELSE B64Error

\* "AR==": a non-canonical text that also decodes to MH_A
KeyA_NonCanonical == [data |-> <<0, 17>>, pad |-> 2]
\* "AQ": missing padding, b64decode raises
KeyMalformed == [data |-> <<0, 16>>, pad |-> 0]

\* kad_prefix_byte (lines 50-55): the first byte of the SHA-256 digest of
\* the multihash, tabulated for the byte strings used here
kad_prefix_byte(mh) ==
    CASE mh = <<0>> -> 110
      [] mh = <<1>> -> 75
      [] mh = <<2>> -> 219
      [] mh = <<3>> -> 8

\* the CID string recorded for a root multihash (line 113) and the
\* multihash make_cid reads back from it (lines 46-47)
root_mh_to_cid(mh) == [codec |-> "raw", multihash |-> mh]
mh_of(c_str) == c_str.multihash

---------------------------------------------------------------------------
\* Log lines.  A line is described by what monitor_logs looks at: whether
\* it contains the marker, whether it contains a "{", whether the text from
\* the first "{" is JSON, and the object that JSON denotes.

Line(marker, brace, json_ok, has_keys, ks, has_prefix, p) ==
    [marker |-> marker, brace |-> brace, json_ok |-> json_ok,
     has_keys |-> has_keys, keys |-> ks, has_prefix |-> has_prefix,
     prefix |-> p]

NoiseLine   == Line(FALSE, TRUE, FALSE, FALSE, <<>>, FALSE, "")
NoBraceLine == Line(TRUE, FALSE, FALSE, FALSE, <<>>, FALSE, "")
BadJsonLine == Line(TRUE, TRUE, FALSE, FALSE, <<>>, FALSE, "")

RecordLine(p, ks) == Line(TRUE, TRUE, TRUE, TRUE, ks, TRUE, p)
RecordLineNoPrefix(ks) == Line(TRUE, TRUE, TRUE, TRUE, ks, FALSE, "")

IgnoredLines == {NoiseLine, NoBraceLine, BadJsonLine}

RecordLines ==
    { RecordLine("00", <<B64Encode(MH_A), B64Encode(MH_B)>>),
      RecordLineNoPrefix(<<B64Encode(MH_C), B64Encode(EMPTY_DIR_MH),
                           KeyA_NonCanonical>>),
      RecordLine("01", <<KeyMalformed, B64Encode(MH_A), B64Encode(MH_B)>>) }

\* what the daemon may write on stderr
LogLines == IgnoredLines \cup RecordLines

\* lines 212-220: None for a line that is skipped, else the JSON object
None == [none |-> TRUE]

\* a faulty variant of parse: every line is taken for a provider record
parse_AcceptAll(line) ==
    [none |-> FALSE,
     keys |-> IF line.has_keys THEN line.keys ELSE <<>>,
     prefix |-> IF line.has_prefix THEN line.prefix ELSE "?"]

parse(line) ==
    IF ~line.marker THEN None
    ELSE IF ~line.brace THEN None
    ELSE IF ~line.json_ok THEN None
    ELSE [none |-> FALSE,
          keys |-> IF line.has_keys THEN line.keys ELSE <<>>,
          prefix |-> IF line.has_prefix THEN line.prefix ELSE "?"]

---------------------------------------------------------------------------
\* Membership index.

\* a faulty variant of OtherMhs: the empty directory is not taken out
OtherMhs_KeepEmptyDir(refs_ok, all_local_mhs, roots) ==
    IF refs_ok THEN all_local_mhs \ roots ELSE {}

\* line 126: other_mhs.update(all_local_mhs - root_mhs - {EMPTY_DIR_MH});
\* other_mhs stays empty when `ipfs refs local` fails (line 118)
OtherMhs(refs_ok, all_local_mhs, roots) ==
    IF refs_ok THEN (all_local_mhs \ roots) \ {EMPTY_DIR_MH} ELSE {}

\* the root universes and local block lists tried
RootUniverses == {{}, {MH_A, MH_B}}
AllLocal(roots) == roots \cup {EMPTY_DIR_MH, MH_C}
\* whether `ipfs refs local` succeeded
RefsOk(roots) == IF roots = {} THEN {TRUE} ELSE BOOLEAN

\* a faulty variant of Classify: the root test also accepts the other blocks
Classify_RootOrOther(mh, roots, others) ==
    IF mh \in roots \cup others THEN "root"
    ELSE IF mh = EMPTY_DIR_MH THEN "emptydir"
    ELSE "unknown"

\* lines 230-243: the category a decoded multihash falls in
Classify(mh, roots, others) ==
    IF mh \in roots THEN "root"
    ELSE IF mh \in others THEN "other"
    ELSE IF mh = EMPTY_DIR_MH THEN "emptydir"
    ELSE "unknown"

\* a faulty variant of add: the set is replaced by the new element
add_Replace(s, mh) == {mh}

\* set.add (lines 233, 237, 243, 247)
add(s, mh) == s \cup {mh}

\* a faulty variant of NewRoot: membership is not consulted
NewRoot_Always(mh, advertised) == TRUE

\* line 232: the root has not been advertised before
NewRoot(mh, advertised) == mh \notin advertised

\* a faulty variant of Slice: the whole buffer is taken every time
Slice_FromStart(lines, from) == lines

\* line 206: lines[from:]
Slice(lines, from) == SubSeq(lines, from + 1, Len(lines))

\* a field of the tracking state is read or written by a thread that does
\* not hold `lock`
Unlocked(thread, field) == unlocked_access \cup {<<thread, field>>}

\* an empty dict
EmptyDict == [k \in {} |-> <<>>]

\* a faulty variant of setdefault_append: the dict is replaced by the one
\* group
setdefault_append_Replace(d, k, v) == [j \in {k} |-> <<v>>]

\* line 306: d.setdefault(k, []).append(v)
setdefault_append(d, k, v) ==
    [j \in DOMAIN d \cup {k} |->
        IF j = k
        THEN Append(IF k \in DOMAIN d THEN d[k] ELSE <<>>, v)
        ELSE d[j]]

\* an order in which `for mh in missing_mhs` may visit the set
IterOrder(set) ==
    CHOOSE order \in [1..Cardinality(set) -> set] :
        \A x \in set : \E i \in 1..Cardinality(set) : order[i] = x

\* lines 302-306: the missing roots grouped by Kademlia prefix; the prefix
\* is looked up in the table precomputed for the roots (lines 133-135)
group_missing(missing) ==
    LET order == IterOrder(missing)
        acc[i \in 0..Len(order)] ==
            IF i = 0
            THEN EmptyDict
            ELSE setdefault_append(acc[i - 1],
                                   kad_prefix_byte(order[i]),
                                   root_mh_to_cid(order[i]))
    IN  acc[Len(order)]

---------------------------------------------------------------------------
\* Initial state: the index is built, the tracking state is empty, the
\* daemon has just been spawned and drain_stderr started (line 182).

NoReport == [printed |-> FALSE]

Init ==
    /\ root_mhs \in RootUniverses
    /\ \E refs_ok \in RefsOk(root_mhs) :
          other_mhs = OtherMhs(refs_ok, AllLocal(root_mhs), root_mhs)
    /\ root_advertised = {}
    /\ other_advertised = {}
    /\ emptydir_advertised = FALSE
    /\ unknown_advertised = {}
    /\ total_provide_records = 0
    /\ seen_provide_prefixes = {}
    /\ daemon = "starting"
    /\ stdout = "empty"
    /\ daemon_signal = "none"
    /\ stderr_lines = <<>>
    /\ monpc = "unstarted"
    /\ seen_idx = 0
    /\ new_lines = <<>>
    /\ keys = <<>>
    /\ key_idx = 0
    /\ prefix = "?"
    /\ n_new_root = 0
    /\ new_root_sum = 0
    /\ processed = <<>>
    /\ unlocked_access = {}
    /\ mainpc = "wait_ready"
    /\ n_root_done = 0
    /\ last_progress = 0
    /\ stall_reported = FALSE
    /\ clock = 0
    /\ err = <<>>
    /\ missing_mhs = {}
    /\ missing_by_prefix = EmptyDict
    /\ prefixes_copy = {}
    /\ report = NoReport
    /\ outcome = "running"
    /\ since_progress = 0
    /\ diag_count = 0

\* the harness process is running; its daemon threads die with it
MainAlive == mainpc \notin {"done", "startup_failed", "interrupted"}

---------------------------------------------------------------------------
\* The daemon (external process).

\* prints "Daemon is ready" on stdout
DaemonReady ==
    /\ UNCHANGED unlocked_access
    /\ MainAlive
    /\ daemon = "starting"
    /\ daemon' = "running"
    /\ stdout' = "ready"
    /\ UNCHANGED <<index_vars, progress_vars, daemon_signal,
                   stderr_lines, monitor_vars, mainpc, main_locals>>

\* exits by itself; its stdout reaches end-of-stream
DaemonExit ==
    /\ UNCHANGED unlocked_access
    /\ MainAlive
    /\ daemon \in {"starting", "running"}
    /\ daemon' = "exited"
    /\ stdout' = IF stdout = "empty" THEN "eof" ELSE stdout
    /\ UNCHANGED <<index_vars, progress_vars, daemon_signal,
                   stderr_lines, monitor_vars, mainpc, main_locals>>

\* lines 164-170: terminate, wait 15 s, kill if it did not exit
shutdown_daemon ==
    /\ \E responsive \in (IF daemon = "exited" THEN {TRUE} ELSE BOOLEAN) :
          daemon_signal' = IF responsive THEN "terminate" ELSE "kill"
    /\ daemon' = "exited"
    /\ stdout' = IF stdout = "empty" THEN "eof" ELSE stdout

\* lines 176-179: one more line of the daemon's stderr, out of those the
\* daemon may write, is appended
drain(written) ==
    /\ UNCHANGED unlocked_access
    /\ MainAlive
    /\ Len(stderr_lines) < MaxLines
    /\ \E line \in written : stderr_lines' = Append(stderr_lines, line)
    /\ UNCHANGED <<index_vars, progress_vars, daemon_vars,
                   monitor_vars, mainpc, main_locals>>

drain_stderr == drain(LogLines)

\* the same thread when the daemon logs provider records only
drain_records == drain(RecordLines)

---------------------------------------------------------------------------
\* monitor_logs (thread), lines 201-266.  Each `with lock:` block is one
\* atomic step: the lock admits one thread at a time and no block waits
\* inside it.

\* lines 204-207: while daemon.poll() is None, the new lines are sliced off
\* the buffer under stderr_lock; with none the for loop is empty and the
\* thread sleeps 0.5 s (line 266) and polls again.  (poll() and the slice
\* read different objects, so taking them in one step loses no behaviour.)
monitor_snapshot ==
    /\ UNCHANGED <<processed, unlocked_access>>
    /\ MainAlive
    /\ monpc = "poll"
    /\ IF daemon = "exited"
       THEN /\ monpc' = "returned"
            /\ UNCHANGED <<new_lines, seen_idx>>
       ELSE /\ new_lines' = Slice(stderr_lines, seen_idx)
            /\ seen_idx' = Len(stderr_lines)
            /\ monpc' = IF seen_idx = Len(stderr_lines)
                        THEN "poll" ELSE "line"
    /\ UNCHANGED <<index_vars, progress_vars, daemon_vars, stderr_lines,
                   keys, key_idx, prefix, n_new_root, new_root_sum, mainpc,
                   main_locals>>

\* lines 208-225: the next line of new_lines is parsed; when none is left
\* the thread sleeps 0.5 s (line 266) and polls again
monitor_line ==
    /\ UNCHANGED unlocked_access
    /\ MainAlive
    /\ monpc = "line"
    /\ IF new_lines = <<>>
       THEN /\ monpc' = "poll"
            /\ UNCHANGED <<new_lines, keys, key_idx, prefix, n_new_root,
                           processed>>
       ELSE LET record == parse(Head(new_lines))
            IN  /\ new_lines' = Tail(new_lines)
                /\ processed' = Append(processed, Head(new_lines))
                /\ IF record.none
                   THEN UNCHANGED <<monpc, keys, key_idx, prefix,
                                    n_new_root>>
                   ELSE /\ keys' = record.keys
                        /\ prefix' = record.prefix
                        /\ n_new_root' = 0
                        /\ key_idx' = 0
                        /\ monpc' = IF record.keys = <<>>
                                    THEN "count" ELSE "key"
    /\ UNCHANGED <<index_vars, progress_vars, daemon_vars, stderr_lines,
                   seen_idx, new_root_sum, mainpc, main_locals>>

\* line 228: base64.b64decode raises; nothing in monitor_logs catches it,
\* the thread ends
monitor_decode_error ==
    /\ UNCHANGED <<processed, unlocked_access>>
    /\ MainAlive
    /\ monpc = "key"
    /\ b64decode(keys[key_idx + 1]).err
    /\ monpc' = "crashed"
    /\ UNCHANGED <<index_vars, progress_vars, daemon_vars, stderr_lines,
                   seen_idx, new_lines, keys, key_idx, prefix, n_new_root,
                   new_root_sum, mainpc, main_locals>>

\* lines 228-243: the key decodes and is classified under the lock
monitor_classify ==
    /\ UNCHANGED <<processed, unlocked_access>>
    /\ MainAlive
    /\ monpc = "key"
    /\ ~b64decode(keys[key_idx + 1]).err
    /\ LET mh == b64decode(keys[key_idx + 1]).bytes
           cat == Classify(mh, root_mhs, other_mhs)
           new == cat = "root" /\ NewRoot(mh, root_advertised)
       IN  /\ root_advertised' =
                 IF new THEN add(root_advertised, mh) ELSE root_advertised
           /\ n_new_root' = IF new THEN n_new_root + 1 ELSE n_new_root
           /\ other_advertised' =
                 IF cat = "other" THEN add(other_advertised, mh)
                                  ELSE other_advertised
           /\ emptydir_advertised' =
                 IF cat = "emptydir" THEN TRUE ELSE emptydir_advertised
           /\ unknown_advertised' =
                 IF cat = "unknown" THEN add(unknown_advertised, mh)
                                    ELSE unknown_advertised
    /\ key_idx' = key_idx + 1
    /\ monpc' = IF key_idx + 1 = Len(keys) THEN "count" ELSE "key"
    /\ UNCHANGED <<index_vars, total_provide_records,
                   seen_provide_prefixes, daemon_vars, stderr_lines,
                   seen_idx, new_lines, keys, prefix, new_root_sum, mainpc,
                   main_locals>>

\* lines 245-265: the record is counted and its prefix noted under the
\* lock; the progress line printed after the block reads
\* total_provide_records again, outside the lock (line 262); then on to the
\* next line
monitor_count ==
    /\ UNCHANGED processed
    /\ unlocked_access' = Unlocked("monitor_logs", "total_provide_records")
    /\ MainAlive
    /\ monpc = "count"
    /\ total_provide_records' = total_provide_records + 1
    /\ seen_provide_prefixes' = add(seen_provide_prefixes, prefix)
    /\ new_root_sum' = new_root_sum + n_new_root
    /\ monpc' = "line"
    /\ UNCHANGED <<index_vars, root_advertised, other_advertised,
                   emptydir_advertised, unknown_advertised, daemon_vars,
                   stderr_lines, seen_idx, new_lines, keys, key_idx, prefix,
                   n_new_root, mainpc, main_locals>>

monitor_logs ==
    \/ monitor_snapshot
    \/ monitor_line
    \/ monitor_decode_error
    \/ monitor_classify
    \/ monitor_count

---------------------------------------------------------------------------
\* main (the harness's main thread).

\* lines 186-192: "Daemon is ready" is read from stdout; lines 268-277: the
\* monitor thread is started and the wait begins
main_ready ==
    /\ UNCHANGED <<processed, unlocked_access>>
    /\ mainpc = "wait_ready"
    /\ stdout = "ready"
    /\ monpc' = "poll"
    /\ mainpc' = "tick"
    /\ UNCHANGED <<index_vars, progress_vars, daemon_vars, stderr_lines,
                   seen_idx, new_lines, keys, key_idx, prefix, n_new_root,
                   new_root_sum, main_locals>>

\* lines 186-194: stdout ends without the marker
main_not_ready ==
    /\ UNCHANGED unlocked_access
    /\ mainpc = "wait_ready"
    /\ stdout = "eof"
    /\ mainpc' = "collect_err"
    /\ UNCHANGED <<index_vars, progress_vars, daemon_vars, stderr_lines,
                   monitor_vars, main_locals>>

\* lines 195-196, under stderr_lock
main_collect_err ==
    /\ UNCHANGED <<missing_by_prefix, unlocked_access>>
    /\ mainpc = "collect_err"
    /\ err' = stderr_lines
    /\ mainpc' = "fail_shutdown"
    /\ UNCHANGED <<index_vars, progress_vars, daemon_vars, stderr_lines,
                   monitor_vars, n_root_done, last_progress, stall_reported,
                   clock, missing_mhs, prefixes_copy, report, outcome,
                   since_progress, diag_count>>

\* a faulty variant of main_fail_shutdown: the daemon is left running
main_fail_shutdown_NoShutdown ==
    /\ UNCHANGED <<missing_by_prefix, unlocked_access>>
    /\ mainpc = "fail_shutdown"
    /\ mainpc' = "startup_failed"
    /\ outcome' = "startup_failed"
    /\ UNCHANGED <<index_vars, progress_vars, daemon_vars, stderr_lines,
                   monitor_vars, n_root_done, last_progress, stall_reported,
                   clock, err, missing_mhs, prefixes_copy, report,
                   since_progress, diag_count>>

\* lines 197-198: shutdown_daemon(), sys.exit(message)
main_fail_shutdown ==
    /\ UNCHANGED <<missing_by_prefix, unlocked_access>>
    /\ mainpc = "fail_shutdown"
    /\ shutdown_daemon
    /\ mainpc' = "startup_failed"
    /\ outcome' = "startup_failed"
    /\ UNCHANGED <<index_vars, progress_vars, stderr_lines, monitor_vars,
                   n_root_done, last_progress, stall_reported, clock, err,
                   missing_mhs, prefixes_copy, report, since_progress,
                   diag_count>>

\* a faulty variant of AllRootsDone: the empty universe is not excluded
AllRootsDone_NoEmptyCheck(done, total) == done >= total

\* line 286
AllRootsDone(done, total) == done >= total /\ total > 0

\* line 291
Progressed(done, last) == done > last

\* a faulty variant of StallDue: stall_reported is not consulted
StallDue_NoLatch(reported, done, last, elapsed) ==
    done = last /\ elapsed > StallThreshold

\* line 294
StallDue(reported, done, last, elapsed) ==
    ~reported /\ done = last /\ elapsed > StallThreshold

\* lines 322-329: the status line is printed and the thread sleeps 10 s
Sleep(t) == Min(t + PollInterval, MaxElapsed)

\* lines 280-295 and 322-329: one poll tick.  The counters are read under
\* the lock, then the tick decides between completion, progress, a stall
\* and plain waiting; unless it completes or reports a stall it prints the
\* status line, which reads emptydir_advertised outside the lock (line 325),
\* and sleeps
main_tick ==
    /\ UNCHANGED missing_by_prefix
    /\ mainpc = "tick"
    /\ LET done == Cardinality(root_advertised)
           total == Cardinality(root_mhs)
           elapsed == clock
       IN  /\ n_root_done' = done
           /\ IF AllRootsDone(done, total)
              THEN /\ mainpc' = "summary"
                   /\ UNCHANGED <<last_progress, stall_reported, clock,
                                  since_progress, diag_count,
                                  unlocked_access>>
              ELSE IF Progressed(done, last_progress)
              THEN /\ last_progress' = done
                   /\ stall_reported' = FALSE
                   /\ diag_count' = 0
                   /\ clock' = Sleep(clock)
                   /\ since_progress' = Sleep(0)
                   /\ unlocked_access' =
                         Unlocked("main", "emptydir_advertised")
                   /\ mainpc' = "tick"
              ELSE IF StallDue(stall_reported, done, last_progress, elapsed)
              THEN /\ stall_reported' = TRUE
                   /\ mainpc' = "stall_missing"
                   /\ UNCHANGED <<last_progress, clock, since_progress,
                                  diag_count, unlocked_access>>
              ELSE /\ clock' = Sleep(clock)
                   /\ since_progress' = Sleep(since_progress)
                   /\ unlocked_access' =
                         Unlocked("main", "emptydir_advertised")
                   /\ mainpc' = "tick"
                   /\ UNCHANGED <<last_progress, stall_reported, diag_count>>
    /\ UNCHANGED <<index_vars, progress_vars, daemon_vars, stderr_lines,
                   monitor_vars, err, missing_mhs, prefixes_copy, report,
                   outcome>>

\* lines 296-313: the missing set is read under the lock, grouped by
\* Kademlia prefix and the stall diagnostic printed
main_stall_missing ==
    /\ UNCHANGED unlocked_access
    /\ mainpc = "stall_missing"
    /\ missing_mhs' = root_mhs \ root_advertised
    /\ missing_by_prefix' = group_missing(root_mhs \ root_advertised)
    /\ diag_count' = Min(diag_count + 1, 2)
    /\ mainpc' = "stall_prefixes"
    /\ UNCHANGED <<index_vars, progress_vars, daemon_vars, stderr_lines,
                   monitor_vars, n_root_done, last_progress, stall_reported,
                   clock, err, prefixes_copy, report, outcome,
                   since_progress>>

\* a faulty variant of main_stall_prefixes: the stall ends the run
main_stall_prefixes_Abort ==
    /\ UNCHANGED <<missing_by_prefix, unlocked_access>>
    /\ mainpc = "stall_prefixes"
    /\ prefixes_copy' = seen_provide_prefixes
    /\ shutdown_daemon
    /\ mainpc' = "done"
    /\ outcome' = "stalled"
    /\ UNCHANGED <<index_vars, progress_vars, stderr_lines, monitor_vars,
                   n_root_done, last_progress, stall_reported, clock, err,
                   missing_mhs, report, since_progress, diag_count>>

\* lines 315-329: the observed prefixes are read under the lock and
\* printed, then the status line, and the thread sleeps 10 s
main_stall_prefixes ==
    /\ UNCHANGED missing_by_prefix
    /\ unlocked_access' = Unlocked("main", "emptydir_advertised")
    /\ mainpc = "stall_prefixes"
    /\ prefixes_copy' = seen_provide_prefixes
    /\ clock' = Sleep(clock)
    /\ since_progress' = Sleep(since_progress)
    /\ mainpc' = "tick"
    /\ UNCHANGED <<index_vars, progress_vars, daemon_vars, stderr_lines,
                   monitor_vars, n_root_done, last_progress, stall_reported,
                   err, missing_mhs, report, outcome, diag_count>>

\* a faulty variant of Summary: the unknown multihashes are counted but
\* not listed
Summary_UnknownNotListed ==
    [printed |-> TRUE,
     root |-> Cardinality(root_advertised),
     root_total |-> Cardinality(root_mhs),
     other |-> Cardinality(other_advertised),
     other_total |-> Cardinality(other_mhs),
     emptydir |-> emptydir_advertised,
     unknown |-> {},
     records |-> total_provide_records]

\* lines 336-347: what the SUMMARY prints
Summary ==
    [printed |-> TRUE,
     root |-> Cardinality(root_advertised),
     root_total |-> Cardinality(root_mhs),
     other |-> Cardinality(other_advertised),
     other_total |-> Cardinality(other_mhs),
     emptydir |-> emptydir_advertised,
     unknown |-> unknown_advertised,
     records |-> total_provide_records]

\* lines 331-352: the final summary is printed under the lock, then
\* shutdown_daemon() and main returns (exit status 0)
main_summary ==
    /\ UNCHANGED <<missing_by_prefix, unlocked_access>>
    /\ mainpc = "summary"
    /\ report' = Summary
    /\ shutdown_daemon
    /\ mainpc' = "done"
    /\ outcome' = "ok"
    /\ UNCHANGED <<index_vars, progress_vars, stderr_lines, monitor_vars,
                   n_root_done, last_progress, stall_reported, clock, err,
                   missing_mhs, prefixes_copy, since_progress, diag_count>>

\* lines 356-360: a KeyboardInterrupt raised anywhere in main() is caught
\* at top level: "Interrupted." is printed and the process exits with 1
KeyboardInterrupt ==
    /\ UNCHANGED <<missing_by_prefix, unlocked_access>>
    /\ MainAlive
    /\ mainpc' = "interrupted"
    /\ outcome' = "interrupted"
    /\ UNCHANGED <<index_vars, progress_vars, daemon_vars, stderr_lines,
                   monitor_vars, n_root_done, last_progress, stall_reported,
                   clock, err, missing_mhs, prefixes_copy, report,
                   since_progress, diag_count>>

main ==
    \/ main_ready
    \/ main_not_ready
    \/ main_collect_err
    \/ main_fail_shutdown
    \/ main_tick
    \/ main_stall_missing
    \/ main_stall_prefixes
    \/ main_summary

---------------------------------------------------------------------------
\* the exit status of the harness process: 0 when main returns, 1 for
\* sys.exit(message) and sys.exit(1); -1 stands for "still running"
ExitStatus(o) ==
    CASE o = "ok" -> 0
      [] o \in {"startup_failed", "interrupted"} -> 1
      [] OTHER -> -1

\* a run that no KeyboardInterrupt cuts short
Next ==
    \/ DaemonReady
    \/ DaemonExit
    \/ drain_stderr
    \/ monitor_logs
    \/ main

Spec == Init /\ [][Next]_vars

\* a run in which the user may press Ctrl-C at any moment
NextInterruptible ==
    \/ Next
    \/ KeyboardInterrupt

InterruptSpec == Init /\ [][NextInterruptible]_vars

\* a run in which the daemon's stderr carries provider records only and
\* the main thread is never starved: each of its waits (reading stdout,
\* time.sleep, acquiring a lock that is held only for a bounded block) ends
NextRecords ==
    \/ DaemonReady
    \/ DaemonExit
    \/ drain_records
    \/ monitor_logs
    \/ main

FairSpec == Init /\ [][NextRecords]_vars /\ WF_vars(main)


---------------------------------------------------------------------------
\* Properties.

\* a step of the main thread inside or out of its polling loop
MainStep == <<mainpc, clock, n_root_done, last_progress, stall_reported,
              missing_mhs, prefixes_copy, report>>' #
            <<mainpc, clock, n_root_done, last_progress, stall_reported,
              missing_mhs, prefixes_copy, report>>

\* monitor_logs is inside a record: at least one key has been classified
\* and the record counter has not been incremented yet
PartiallyApplied == monpc \in {"key", "count"} /\ key_idx >= 1

\* C1: a locked read by the main thread (the tick's snapshot, the stall
\* diagnostic's reads, the final summary) never happens while a record is
\* partially applied.
C1_RecordAppliedAtomically ==
    [][(mainpc \in {"tick", "stall_missing", "stall_prefixes", "summary"}
        /\ MainStep) => ~PartiallyApplied]_vars

\* C2: a stall diagnostic is only emitted when more than StallThreshold
\* seconds have passed since the main thread last saw the root count grow
\* (or since start).
C2_StallOnlyAfterThreshold ==
    mainpc \in {"stall_missing", "stall_prefixes"}
        => since_progress > StallThreshold

\* C3: between two ticks that observe progress (or from start to the first
\* one) the stall diagnostic is printed at most once.
C3_AtMostOneDiagnosticPerEpisode == diag_count <= 1

\* a diagnostic was printed and the loop went on polling afterwards with
\* no progress
C3_Witness ==
    /\ diag_count = 1
    /\ stall_reported
    /\ mainpc = "tick"
    /\ clock > StallThreshold + PollInterval
    /\ root_advertised # root_mhs

\* C4: a tick taken after the daemon has exited, with root identifiers
\* still unadvertised, ends the run with the DaemonExitedEarly outcome
\* (it neither sleeps nor reports a stall).
C4_EarlyExitIsFatal ==
    [][(/\ mainpc = "tick"
        /\ daemon = "exited"
        /\ ~(Cardinality(root_advertised) >= Cardinality(root_mhs)
             /\ root_mhs # {})
        /\ MainStep)
       => outcome' = "daemon_exited_early"]_vars

\* C5: after a KeyboardInterrupt the daemon has been signalled and the
\* final report printed.
C5_InterruptShutsDownAndReports ==
    outcome = "interrupted" => (daemon_signal # "none" /\ report.printed)

\* a step of the monitor thread
MonitorStep == <<monpc, key_idx, new_lines>>' # <<monpc, key_idx, new_lines>>

\* C6: a key that fails base64 decoding is skipped: no category set
\* changes, and the monitor goes on with the next key of the record (or
\* with counting the record).
C6_MalformedKeySkipped ==
    [][(/\ monpc = "key"
        /\ b64decode(keys[key_idx + 1]).err
        /\ MonitorStep)
       => /\ key_idx' = key_idx + 1
          /\ monpc' = (IF key_idx + 1 = Len(keys) THEN "count" ELSE "key")
          /\ UNCHANGED <<root_advertised, other_advertised,
                         emptydir_advertised, unknown_advertised>>]_vars

\* the supervisor has left its polling loop
Complete == mainpc \in {"summary", "done"}

\* C7: a tick leaves the polling loop exactly when its snapshot shows all
\* roots of a non-empty universe advertised; once left, the loop is never
\* re-entered and no diagnostic is printed; and whenever the loop has been
\* left, root_advertised equals a non-empty root universe.
C7_CompleteIffAllRootsAdvertised ==
    [][/\ (mainpc = "tick" /\ MainStep)
            => ((mainpc' = "summary") <=>
                (/\ Cardinality(root_advertised) >= Cardinality(root_mhs)
                 /\ Cardinality(root_mhs) > 0))
       /\ Complete => (Complete' /\ UNCHANGED <<clock, diag_count>>)
       /\ Complete' => (root_advertised' = root_mhs' /\ root_mhs' # {})]_vars

C7_Witness == mainpc = "done" /\ outcome = "ok" /\ report.printed

\* line i of the buffer is a provider record with a key that decodes to mh
LoggedAt(i, mh) ==
    LET record == parse(stderr_lines[i])
    IN  /\ ~record.none
        /\ \E j \in 1..Len(record.keys) :
              b64decode(record.keys[j]) = B64Ok(mh)

AllRootsLogged ==
    \A mh \in root_mhs : \E i \in 1..Len(stderr_lines) : LoggedAt(i, mh)

\* C8: while the daemon is alive and every root of a non-empty universe
\* has been logged as a well-formed key, completion stays reachable: the
\* run has ended with exit status 0, or all roots are advertised, or the
\* monitor thread is still running.
C8_AllRootsLoggedLeadsToComplete ==
    (/\ root_mhs # {}
     /\ AllRootsLogged
     /\ daemon = "running"
     /\ monpc # "unstarted")
    => \/ outcome = "ok"
       \/ root_advertised = root_mhs
       \/ monpc \notin {"crashed", "returned"}

\* C9: root_advertised is a subset of the root universe.
C9_RootAdvertisedSubsetOfUniverse == root_advertised \subseteq root_mhs

\* keys outside the root universe have been classified beside root keys
C9_Witness ==
    /\ root_advertised # {}
    /\ unknown_advertised # {}
    /\ emptydir_advertised

\* C10: the advertised sets are pairwise disjoint, neither other_advertised
\* nor unknown_advertised holds the empty-directory multihash, and one
\* classified key changes at most one of the four categories.
C10_CategoriesDisjoint ==
    [][/\ root_advertised' \cap other_advertised' = {}
       /\ root_advertised' \cap unknown_advertised' = {}
       /\ other_advertised' \cap unknown_advertised' = {}
       /\ EMPTY_DIR_MH \notin (other_advertised' \cup unknown_advertised')
       /\ Cardinality({k \in 1..4 :
             <<root_advertised, other_advertised, emptydir_advertised,
               unknown_advertised>>[k] #
             <<root_advertised', other_advertised', emptydir_advertised',
               unknown_advertised'>>[k]}) <= 1]_vars

\* all four kinds of key have been classified in one run
C10_Witness ==
    /\ root_advertised # {}
    /\ other_advertised # {}
    /\ emptydir_advertised
    /\ total_provide_records >= 2

\* C11: in every step each advertised set only gains elements, the
\* empty-directory flag never goes from true to false, and the number of
\* advertised roots, the record counter and the set of observed prefixes
\* never decrease.
C11_ProgressOnlyGrows ==
    [][/\ root_advertised \subseteq root_advertised'
       /\ other_advertised \subseteq other_advertised'
       /\ unknown_advertised \subseteq unknown_advertised'
       /\ emptydir_advertised => emptydir_advertised'
       /\ Cardinality(root_advertised') >= Cardinality(root_advertised)
       /\ total_provide_records' >= total_provide_records
       /\ seen_provide_prefixes \subseteq seen_provide_prefixes']_vars

\* the same record line was logged twice and both copies have been counted,
\* with both roots advertised
C11_Witness ==
    /\ Len(stderr_lines) = 2
    /\ stderr_lines[1] = stderr_lines[2]
    /\ total_provide_records = 2
    /\ Cardinality(root_advertised) = 2

\* the index in the buffer of the line monitor_logs is working on
CurLine == seen_idx - Len(new_lines)

\* the record being applied was applied before, from an identical line
Reapplied ==
    /\ monpc \in {"key", "count"}
    /\ \E i \in 1..(CurLine - 1) : stderr_lines[i] = stderr_lines[CurLine]

\* the n_new_root of a record that has been begun and not counted yet
NewRootInFlight ==
    IF monpc \in {"key", "count", "crashed"} THEN n_new_root ELSE 0

\* C12: the n_new_root counts of all records add up to the number of
\* advertised roots; a root is counted as new exactly in the step that adds
\* it to root_advertised; and while a record is applied a second time its
\* n_new_root stays 0 and no advertised set changes.
C12_NewRootSignalExact ==
    [][/\ new_root_sum' + NewRootInFlight' = Cardinality(root_advertised')
       /\ (n_new_root' = n_new_root + 1)
             <=> (root_advertised' # root_advertised)
       /\ Reapplied' => n_new_root' = 0
       /\ Reapplied => UNCHANGED <<root_advertised, other_advertised,
                                   emptydir_advertised,
                                   unknown_advertised>>]_vars

\* a record that advertised a new root has been applied a second time and
\* is about to be counted with n_new_root = 0
C12_Witness ==
    /\ Reapplied
    /\ monpc = "count"
    /\ n_new_root = 0
    /\ new_root_sum >= 1
    /\ new_root_sum = Cardinality(root_advertised)

\* main is in the startup-failure path (lines 193-198)
StartupFailing == mainpc \in {"collect_err", "fail_shutdown", "startup_failed"}

\* C13: when stdout ends before "Daemon is ready", main takes the
\* startup-failure path and no other; on that path the error text is the
\* stderr buffer as it is when collected, the monitor thread and the polling
\* loop are never started, and the process ends with the daemon shut down
\* and a non-zero exit status.
C13_StartupFailureAborts ==
    [][/\ (mainpc = "wait_ready" /\ stdout = "eof" /\ MainStep)
            => mainpc' = "collect_err"
       /\ (mainpc = "collect_err" /\ MainStep)
            => (err' = stderr_lines /\ mainpc' = "fail_shutdown")
       /\ StartupFailing
            => /\ StartupFailing'
               /\ UNCHANGED <<monitor_vars, progress_vars, clock, report>>
               /\ monpc = "unstarted"
               /\ clock = 0
       /\ (mainpc' = "startup_failed")
            => /\ daemon' = "exited"
               /\ daemon_signal' \in {"terminate", "kill"}
               /\ ExitStatus(outcome') # 0
               /\ ExitStatus(outcome') # -1]_vars

\* the run has ended as a startup failure whose message carries stderr lines
C13_Witness ==
    /\ mainpc = "startup_failed"
    /\ outcome = "startup_failed"
    /\ err # <<>>
    /\ daemon_signal # "none"

StallReported == diag_count >= 1 /\ stall_reported

\* C15: the step that ends a stall diagnostic goes back to polling with the
\* run still going, and whenever all roots of a non-empty universe are
\* advertised after a stall diagnostic, the loop is eventually left and the
\* summary printed.
C15_StallNeverEndsRun ==
    /\ [][/\ (mainpc = "stall_missing" /\ MainStep)
               => (mainpc' = "stall_prefixes" /\ outcome' = "running")
          /\ (mainpc = "stall_prefixes" /\ MainStep)
               => (mainpc' = "tick" /\ outcome' = "running")]_vars
    /\ (StallReported /\ root_mhs # {} /\ root_advertised = root_mhs)
          ~> (Complete /\ report.printed /\ outcome = "ok")

\* the run completed after a stall diagnostic had been printed with roots
\* missing
C15_Witness ==
    /\ diag_count = 1
    /\ missing_mhs # {}
    /\ mainpc = "done"
    /\ report.printed
    /\ report.root = report.root_total

\* C16: from the tick that detects completion until the summary has been
\* printed, no advertised set, nor the empty-directory flag, the record
\* counter or the set of observed prefixes changes.
C16_FrozenOnceComplete ==
    [][mainpc = "summary" => UNCHANGED progress_vars]_vars

\* the fields of the tracking state (test.py 139-147)
ProgressFields ==
    {"root_advertised", "other_advertised", "emptydir_advertised",
     "unknown_advertised", "total_provide_records", "seen_provide_prefixes"}

\* C17: no thread reads or writes a field of the tracking state outside a
\* `with lock:` block.
C17_AccessOnlyUnderLock ==
    \A a \in unlocked_access : a[2] \notin ProgressFields

\* C18: the lines monitor_logs has taken up are an initial part of the
\* buffer, in buffer order, none left out and none twice; with the lines of
\* its current snapshot still to come they make up the first seen_idx lines
\* of the buffer; and the line it is working on is the last one taken up.
C18_LinesInOrderOnce ==
    /\ seen_idx <= Len(stderr_lines)
    /\ Len(processed) <= Len(stderr_lines)
    /\ processed = SubSeq(stderr_lines, 1, Len(processed))
    /\ processed \o new_lines = SubSeq(stderr_lines, 1, seen_idx)
    /\ monpc \in {"key", "count"}
          => /\ processed # <<>>
             /\ keys = parse(processed[Len(processed)]).keys

\* drain_stderr has appended a second line while the monitor is still
\* applying the record of its first snapshot
C18_Witness ==
    /\ Len(stderr_lines) = 2
    /\ seen_idx = 1
    /\ new_lines = <<>>
    /\ monpc = "count"
    /\ processed = <<stderr_lines[1]>>

\* the line lacks the marker, has no "{", or is not JSON from its first "{"
Ignored(line) == ~line.marker \/ ~line.brace \/ ~line.json_ok

\* C19: the step that takes up an ignored line changes nothing of the
\* tracking state nor of the record being built, and leaves the monitor at
\* the next line of its snapshot.
C19_IgnoredLineChangesNothing ==
    [][(/\ monpc = "line"
        /\ new_lines # <<>>
        /\ Ignored(Head(new_lines))
        /\ MonitorStep)
       => /\ UNCHANGED progress_vars
          /\ UNCHANGED <<keys, key_idx, prefix, n_new_root, new_root_sum>>
          /\ new_lines' = Tail(new_lines)
          /\ monpc' = "line"]_vars

\* an undecodable line was passed over and the record after it applied
C19_Witness ==
    /\ Len(processed) = 2
    /\ processed[1] = BadJsonLine
    /\ processed[2] \in RecordLines
    /\ monpc = "count"
    /\ total_provide_records = 0
    /\ seen_provide_prefixes = {}

\* the places <<prefix, position>> of the grouping that hold the CID of mh
PlacesOf(mh) ==
    {pl \in {<<kp, i>> : kp \in DOMAIN missing_by_prefix,
                         i \in 1..Cardinality(root_mhs)} :
        /\ pl[2] <= Len(missing_by_prefix[pl[1]])
        /\ mh_of(missing_by_prefix[pl[1]][pl[2]]) = mh}

\* C20: the missing set of a stall diagnostic is the root universe less the
\* advertised roots as read under the lock, and the grouping printed for it
\* holds every missing root exactly once, in the group of its own Kademlia
\* prefix, holds no empty group, and holds nothing but missing roots.
C20_PrefixGroupsPartitionMissing ==
    [][/\ (mainpc = "stall_missing" /\ MainStep)
            => /\ missing_mhs' = root_mhs \ root_advertised
               /\ missing_mhs' \cap root_advertised' = {}
       /\ missing_mhs' \subseteq root_mhs'
       /\ \A mh \in missing_mhs' :
             /\ Cardinality(PlacesOf(mh)') = 1
             /\ \A pl \in PlacesOf(mh)' : pl[1] = kad_prefix_byte(mh)
       /\ \A kp \in DOMAIN missing_by_prefix' :
             /\ missing_by_prefix'[kp] # <<>>
             /\ Len(missing_by_prefix'[kp]) <= Cardinality(missing_mhs')
             /\ \A i \in 1..Len(missing_by_prefix'[kp]) :
                   mh_of(missing_by_prefix'[kp][i]) \in missing_mhs']_vars

\* a diagnostic has grouped two missing roots under two prefixes
C20_Witness ==
    /\ diag_count = 1
    /\ Cardinality(missing_mhs) = 2
    /\ Cardinality(DOMAIN missing_by_prefix) = 2

\* C21: with a non-empty root universe, the missing set of a stall
\* diagnostic is non-empty and has as many members as the tick that decided
\* on the diagnostic counted roots not yet advertised (n_root_total less
\* n_root_done).
C21_MissingMatchesTickSnapshot ==
    (mainpc = "stall_prefixes" /\ root_mhs # {})
        => /\ missing_mhs # {}
           /\ Cardinality(missing_mhs) = Cardinality(root_mhs) - n_root_done

===========================================================================
